---- MODULE Spec2Model ----
(***************************************************************************)
(* Model of the mcp-example host (server.ts, carried in README.md) and     *)
(* driver (src/client.ts): the two tool handlers, createUser and the user  *)
(* collection, the reverse sampling call, the driver's sampling handler    *)
(* and its session loop.  The request/response envelope of the protocol    *)
(* library the two programs are built on is modelled from the              *)
(* specification (correlation ids, error replies, bounded wait).           *)
(***************************************************************************)
EXTENDS Integers, Sequences, FiniteSets, TLC

\* Bound of the model: the number of tool invocations the driver issues in a run.
MaxCalls == 2

\* client.ts:272, maxSteps of handleAutonomousTask.
MaxSteps == 5

\* Bound of the runs of the sampling handler on a request of any shape: the
\* number of message entries of the request.
MaxMessages == 3

\* Bound of the runs that follow one agent loop to its cap: the number of tool
\* invocations the driver issues in such a run.
MaxAgentCalls == 6

(***************************************************************************)
(* Text.  A text is a sequence of tokens: "ws" is white space (a blank or  *)
(* a newline), "fence" the three backticks, "json" the word json, "junk"   *)
(* any other non-JSON run, and a J_ token the text of one JSON value.      *)
(***************************************************************************)
JsonTokens == {"J_user", "J_partial", "J_withid"}

\* What JSON.parse returns for the text of one JSON value, as its kind and
\* its own enumerable properties (what an object spread copies).
JsonValue(tok) ==
  CASE tok = "J_user" ->
         [kind |-> "object",
          props |-> [name |-> "Ada", email |-> "a@b.com",
                     address |-> "1 Main", phone |-> "555"]]
    [] tok = "J_partial" ->
         [kind |-> "object", props |-> [name |-> "Ada"]]
    [] OTHER ->
         [kind |-> "object",
          props |-> [id |-> 1, name |-> "Eve", email |-> "e@b.com",
                     address |-> "9 Side", phone |-> "999"]]

RECURSIVE TrimStart(_)
TrimStart(s) ==
  IF s # <<>> /\ Head(s) = "ws" THEN TrimStart(Tail(s)) ELSE s

RECURSIVE TrimEnd(_)
TrimEnd(s) ==
  IF s # <<>> /\ s[Len(s)] = "ws" THEN TrimEnd(SubSeq(s, 1, Len(s) - 1)) ELSE s

\* String.prototype.trim
Trim(s) == TrimEnd(TrimStart(s))

\* Faulty variant of StripFenceStart: the leading fence is left in place.
StripFenceStartKept(s) == s

\* .replace(/^```json/, "")
StripFenceStart(s) ==
  IF Len(s) >= 2 /\ s[1] = "fence" /\ s[2] = "json"
    THEN SubSeq(s, 3, Len(s))
    ELSE s

\* .replace(/```$/, "")
StripFenceEnd(s) ==
  IF s # <<>> /\ s[Len(s)] = "fence" THEN SubSeq(s, 1, Len(s) - 1) ELSE s

\* The normalisation of create-random-user before JSON.parse.
StripFences(s) == Trim(StripFenceEnd(StripFenceStart(Trim(s))))

\* Faulty variant of JsonParses: a parser that reads the leading value and
\* ignores what follows it.
JsonParsesLeading(s) == Trim(s) # <<>> /\ Trim(s)[1] \in JsonTokens

\* JSON.parse: white space around one value is allowed, anything else throws.
JsonParses(s) == Len(Trim(s)) = 1 /\ Trim(s)[1] \in JsonTokens

JsonParse(s) == JsonValue(Trim(s)[1])

\* Faulty variant of Join: the texts are put together with no separator.
RECURSIVE JoinBare(_)
JoinBare(texts) ==
  IF texts = <<>> THEN <<>> ELSE texts[1] \o JoinBare(Tail(texts))

\* Array.prototype.join("\n")
RECURSIVE Join(_)
Join(texts) ==
  IF texts = <<>> THEN <<>>
  ELSE IF Len(texts) = 1 THEN texts[1]
  ELSE texts[1] \o <<"ws">> \o Join(Tail(texts))

Fenced(open, tok) == open \o <<"ws", tok, "ws", "fence">>

\* The texts the generation backend is taken to produce: a User record bare,
\* fenced with the json tag and fenced without it, a record with missing
\* fields, a record with an id of its own, and a text that is not JSON.
GenTexts ==
  {<<"J_user">>, <<"J_partial">>, <<"J_withid">>,
   Fenced(<<"fence", "json">>, "J_user"), Fenced(<<"fence">>, "J_user"),
   <<"J_user", "junk">>}

\* The messages of the sampling request of create-random-user.
SamplingMessages == <<[role |-> "user", type |-> "text"]>>

\* The texts a sampling reply can carry: the join of the texts generated for
\* the messages of the request that were run.
ReplyTexts ==
  {Join(texts) :
     texts \in UNION {[1 .. n -> GenTexts] : n \in 0 .. Len(SamplingMessages)}}

\* JSON.parse(text.trim().replace(...).replace(...).trim()) of the
\* create-random-user handler, for each reply text: whether it returns, and
\* what.
Generated ==
  [text \in ReplyTexts |->
     IF JsonParses(StripFences(text))
       THEN [ok |-> TRUE, value |-> JsonParse(StripFences(text))]
       ELSE [ok |-> FALSE, value |-> [kind |-> "none", props |-> <<>>]]]

\* The validated arguments the create-user handler is called with.
CreateArgs ==
  {[name |-> "Bob", email |-> "b@c.com", address |-> "2 Elm", phone |-> "777"]}

\* { id: newUserId, ...userData }
NewRecord(newUserId, userData) ==
  [k \in {"id"} \cup DOMAIN userData |->
     IF k \in DOMAIN userData THEN userData[k] ELSE newUserId]

\* The users.json the host starts from.
InitUsers ==
  <<[id |-> 1, name |-> "Zoe", email |-> "z@b.com",
     address |-> "3 Oak", phone |-> "111"]>>

Success(newUserId) == [text |-> "User created successfully", id |-> newUserId]
Failure(message) == [text |-> message, id |-> 0]

\* The values a user can type for the userId placeholder of
\* users://{userId}/profile.
UserIds == {"2x", "9"}

\* parseInt(userId), as the set of the numbers a record id can be === to: the
\* leading digits of the text, and no number at all for NaN.
ParseInt(userId) ==
  CASE userId = "2x" -> {2}
    [] userId = "9" -> {9}
    [] OTHER -> {}

\* JSON.stringify(value): the text of the JSON of a value.
JsonStringify(value) == [json |-> value]

\* The contents a resource handler returns, with the one text it carries.
Contents(text) == [text |-> "contents", id |-> 0, payload |-> text]

\* allUsers.find((user) => user.id === parseInt(userId)): the first record
\* whose id is the number, as a sequence of one record, or of none.
Find(all, ids) ==
  IF \E i \in DOMAIN all : all[i].id \in ids
    THEN <<all[CHOOSE i \in DOMAIN all :
                 /\ all[i].id \in ids
                 /\ \A j \in DOMAIN all : all[j].id \in ids => i <= j]>>
    ELSE <<>>

\* The user-details handler after its import.
UserDetails(all, userId) ==
  LET foundUser == Find(all, ParseInt(userId)) IN
  IF foundUser = <<>>
    THEN Contents(JsonStringify([error |-> "User not found"]))
    ELSE Contents(JsonStringify(foundUser[1]))

\* The users handler after its import.
AllUsers(all) == Contents(JsonStringify(all))

\* The messages the generate-fake-user prompt renders.
PromptMessages == <<[role |-> "user", type |-> "text"]>>

(***************************************************************************)
(* State.                                                                  *)
(***************************************************************************)
VARIABLES
  users,          \* host: the array of the imported users.json module
  file,           \* host: the document src/data/users.json on disk
  inv,            \* host: the tool invocations, by the id of their request
  hostNextId,     \* host envelope: the next correlation id
  hostPending,    \* host envelope: the ids of its Pending Calls
  got,            \* host: the response each invocation's sampling call got
  smp,            \* driver: the runs of the sampling handler, by request id
  registered,     \* driver: the sampling handler is registered
  pc,             \* driver: where main is
  steps,          \* driver: tool-use steps of the running autonomous task
  driverNextId,   \* driver envelope: the next correlation id
  driverPending,  \* driver envelope: the ids of its Pending Calls
  results,        \* driver: what each of its requests settled with
  wait,           \* driver: the requests the running handler awaits
  toHost,         \* transport, driver to host
  toDriver        \* transport, host to driver

vars ==
  <<users, file, inv, hostNextId, hostPending, got, smp, registered, pc, steps,
    driverNextId, driverPending, results, wait, toHost, toDriver>>

hostVars == <<users, file, inv, hostNextId, hostPending>>
driverMain == <<registered, pc, steps, driverNextId, driverPending, results, wait>>

Calls == 1 .. MaxCalls

NoData == [kind |-> "none", props |-> <<>>]

IdleInv ==
  [tool |-> "none", pc |-> "idle", data |-> NoData, sid |-> 0,
   newUserId |-> 0, snap |-> <<>>, out |-> Failure("none"), fault |-> "none"]

NoMessage == [kind |-> "none", id |-> 0]

IdleSmp == [pc |-> "none", messages |-> <<>>, idx |-> 0, texts |-> <<>>]

Init ==
  /\ users = InitUsers
  /\ file = InitUsers
  /\ inv = [c \in Calls |-> IdleInv]
  /\ hostNextId = 1
  /\ hostPending = {}
  /\ got = [c \in Calls |-> NoMessage]
  /\ smp = [s \in Calls |-> IdleSmp]
  /\ registered = FALSE
  /\ pc = "connect"
  /\ steps = 0
  /\ driverNextId = 1
  /\ driverPending = {}
  /\ results = [c \in Calls |-> [status |-> "none", content |-> Failure("none")]]
  /\ wait = {}
  /\ toHost = <<>>
  /\ toDriver = <<>>

(***************************************************************************)
(* Host: the tool handlers and createUser.                                 *)
(***************************************************************************)
\* The catch block of each tool handler.
CatchMessage(tool) ==
  IF tool = "create-user" THEN "Failed to save user"
  ELSE "Failed to generate user data"

\* A tool handler returns content: the envelope answers the driver's request.
\* fault records which failure, if any, the handler ran into.
Return(c, content, fault) ==
  /\ inv' = [inv EXCEPT ![c].pc = "done", ![c].out = content, ![c].fault = fault]
  /\ toDriver' = Append(toDriver, [kind |-> "result", id |-> c, content |-> content])

\* A handler raises: the envelope answers the request with an error.
RaiseWith(c, reason, fault) ==
  /\ inv' = [inv EXCEPT ![c].pc = "raised", ![c].out = Failure(reason),
                        ![c].fault = fault]
  /\ toDriver' = Append(toDriver, [kind |-> "error", id |-> c, error |-> reason])

\* A tool handler raises on the failure of its sampling call.
Raise(c, reason) == RaiseWith(c, reason, "sampling")

\* Faulty variant of Waiter: the response goes to the first waiting
\* invocation, whatever its id.
WaiterFirst(s) == CHOOSE c \in Calls : inv[c].pc = "sampling"

\* The invocation waiting on the Pending Call s.
Waiter(s) == CHOOSE c \in Calls : inv[c].pc = "sampling" /\ inv[c].sid = s

\* The create-user handler starts: createUser awaits the import.
StartCreateUser(m) ==
  /\ inv' = [inv EXCEPT ![m.id] =
        [IdleInv EXCEPT !.tool = m.tool, !.pc = "import",
                        !.data = [kind |-> "object", props |-> m.args]]]
  /\ UNCHANGED <<users, file, hostNextId, hostPending, toDriver>>

\* The create-random-user handler starts: it issues the sampling request.
StartCreateRandomUser(m) ==
  /\ inv' = [inv EXCEPT ![m.id] =
        [IdleInv EXCEPT !.tool = m.tool, !.pc = "sampling", !.sid = hostNextId]]
  /\ hostNextId' = hostNextId + 1
  /\ hostPending' = hostPending \cup {hostNextId}
  /\ toDriver' = Append(toDriver,
        [kind |-> "sample", id |-> hostNextId, messages |-> SamplingMessages])
  /\ UNCHANGED <<users, file>>

\* A resource handler starts: it awaits the import of users.json.
StartRead(m) ==
  /\ inv' = [inv EXCEPT ![m.id] =
        [IdleInv EXCEPT !.tool = m.tool, !.pc = "load",
                        !.data = [kind |-> "uri", props |-> m.args]]]
  /\ UNCHANGED <<users, file, hostNextId, hostPending, toDriver>>

\* The generate-fake-user handler: it returns its messages at once.
RenderPrompt(m) ==
  /\ inv' = [inv EXCEPT ![m.id] =
        [IdleInv EXCEPT !.tool = m.tool, !.pc = "done",
                        !.out = Contents(PromptMessages)]]
  /\ toDriver' = Append(toDriver,
        [kind |-> "result", id |-> m.id, content |-> Contents(PromptMessages)])
  /\ UNCHANGED <<users, file, hostNextId, hostPending>>

\* create-random-user after the sampling result arrived: the type test, the
\* parse inside the try block, and the call of createUser up to its import.
AfterSampling(c, m) ==
  IF m.type # "text"
    THEN Return(c, Failure("Failed to generate user data"), "type")
  ELSE IF ~Generated[m.text].ok
    THEN Return(c, Failure(CatchMessage(inv[c].tool)), "parse")
  ELSE /\ inv' = [inv EXCEPT ![c].pc = "import",
                             ![c].data = Generated[m.text].value]
       /\ UNCHANGED toDriver

\* The host envelope gets a response: it settles the Pending Call of that id,
\* and drops a response whose id has none.
HostResponse(m) ==
  IF m.id \notin hostPending
    THEN UNCHANGED <<hostVars, toDriver, got>>
  ELSE /\ hostPending' = hostPending \ {m.id}
       /\ got' = [got EXCEPT ![Waiter(m.id)] = m]
       /\ IF m.kind = "error"
            THEN Raise(Waiter(m.id), m.error)
            ELSE AfterSampling(Waiter(m.id), m)
       /\ UNCHANGED <<users, file, hostNextId>>

HostReceive ==
  /\ toHost # <<>>
  /\ toHost' = Tail(toHost)
  /\ LET m == Head(toHost) IN
       CASE m.kind = "call" /\ m.tool = "create-user" ->
              StartCreateUser(m) /\ UNCHANGED got
         [] m.kind = "call" /\ m.tool = "create-random-user" ->
              StartCreateRandomUser(m) /\ UNCHANGED got
         [] m.kind = "read" ->
              StartRead(m) /\ UNCHANGED got
         [] m.kind = "prompt" ->
              RenderPrompt(m) /\ UNCHANGED got
         [] OTHER -> HostResponse(m)
  /\ UNCHANGED <<smp, driverMain>>

\* createUser, from the import to the call of writeFile.
ImportOk(c) ==
  LET newUserId == Len(users) + 1 IN
  /\ users' = Append(users, NewRecord(newUserId, inv[c].data.props))
  /\ inv' = [inv EXCEPT ![c].pc = "write", ![c].newUserId = newUserId,
                        ![c].snap = users']
  /\ UNCHANGED <<file, toDriver>>

HostImport(c) ==
  /\ inv[c].pc = "import"
  /\ \/ ImportOk(c)
     \/ /\ Return(c, Failure(CatchMessage(inv[c].tool)), "import")
        /\ UNCHANGED <<users, file>>
  /\ UNCHANGED <<hostNextId, hostPending, got, smp, driverMain, toHost>>

\* Faulty variant of HostWrite: writeFile is not awaited, so the success
\* content is returned whether or not the write goes through.
HostWriteNotAwaited(c) ==
  /\ inv[c].pc = "write"
  /\ Return(c, Success(inv[c].newUserId), "none")
  /\ \/ file' = inv[c].snap
     \/ UNCHANGED file
  /\ UNCHANGED <<users, hostNextId, hostPending, got, smp, driverMain, toHost>>

\* writeFile settles: the document is rewritten in full, or the write fails.
HostWrite(c) ==
  /\ inv[c].pc = "write"
  /\ \/ /\ file' = inv[c].snap
        /\ Return(c, Success(inv[c].newUserId), "none")
     \/ /\ Return(c, Failure(CatchMessage(inv[c].tool)), "write")
        /\ UNCHANGED file
  /\ UNCHANGED <<users, hostNextId, hostPending, got, smp, driverMain, toHost>>

\* What a resource handler returns once the import gave it the collection.
ReadResult(c) ==
  IF inv[c].tool = "user-details"
    THEN UserDetails(users, inv[c].data.props.userId)
    ELSE AllUsers(users)

\* The import of a resource handler settles: the handler returns its contents,
\* or the import rejects and the handler with it.
HostLoad(c) ==
  /\ inv[c].pc = "load"
  /\ \/ Return(c, ReadResult(c), "none")
     \/ RaiseWith(c, "ImportFailed", "load")
  /\ UNCHANGED <<users, file, hostNextId, hostPending, got, smp, driverMain, toHost>>

\* Faulty variant of HostTimeout: the call fails with Timeout but its id stays
\* in the pending set.
HostTimeoutKeepsPending(s) ==
  /\ s \in hostPending
  /\ \E c \in Calls : inv[c].pc = "sampling" /\ inv[c].sid = s
  /\ Raise(CHOOSE c \in Calls : inv[c].pc = "sampling" /\ inv[c].sid = s, "Timeout")
  /\ UNCHANGED <<users, file, hostNextId, hostPending, got, smp, driverMain, toHost>>

\* The bounded wait of a Pending Call of the host ends.
HostTimeout(s) ==
  /\ s \in hostPending
  /\ hostPending' = hostPending \ {s}
  /\ Raise(Waiter(s), "Timeout")
  /\ UNCHANGED <<users, file, hostNextId, got, smp, driverMain, toHost>>

(***************************************************************************)
(* Driver: the sampling handler.                                           *)
(***************************************************************************)
\* The first message at or after i that handleServerMessagePrompt does not
\* return from at once (a text message), or Len + 1.
RECURSIVE NextPrompt(_, _)
NextPrompt(messages, i) ==
  IF i > Len(messages) THEN i
  ELSE IF messages[i].type # "text" THEN NextPrompt(messages, i + 1)
  ELSE i

\* The result the handler returns, sent by the envelope as the response.
Reply(s, texts) ==
  [kind |-> "result", id |-> s, type |-> "text", text |-> Join(texts)]

\* The loop of the handler goes on from message i with the texts so far: it
\* stops at the next confirm, or ends and replies.
Continue(s, i, texts) ==
  LET j == NextPrompt(smp[s].messages, i) IN
  IF j > Len(smp[s].messages)
    THEN /\ smp' = [smp EXCEPT ![s].pc = "done", ![s].idx = j, ![s].texts = texts]
         /\ toHost' = Append(toHost, Reply(s, texts))
    ELSE /\ smp' = [smp EXCEPT ![s].pc = "confirm", ![s].idx = j, ![s].texts = texts]
         /\ UNCHANGED toHost

\* A sampling request arrives: the handler starts on its first message.
StartSampling(m) ==
  IF ~registered
    THEN /\ toHost' = Append(toHost,
               [kind |-> "error", id |-> m.id, error |-> "Method not found"])
         /\ UNCHANGED smp
  ELSE LET j == NextPrompt(m.messages, 1) IN
       IF j > Len(m.messages)
         THEN /\ smp' = [smp EXCEPT ![m.id] =
                    [pc |-> "done", messages |-> m.messages, idx |-> j, texts |-> <<>>]]
              /\ toHost' = Append(toHost, Reply(m.id, <<>>))
         ELSE /\ smp' = [smp EXCEPT ![m.id] =
                    [pc |-> "confirm", messages |-> m.messages, idx |-> j, texts |-> <<>>]]
              /\ UNCHANGED toHost

\* The driver envelope gets a response: it settles the Pending Call of that id,
\* and drops a response whose id has none.
DriverResponse(m) ==
  /\ IF m.id \notin driverPending
       THEN UNCHANGED <<driverPending, results>>
       ELSE /\ driverPending' = driverPending \ {m.id}
            /\ results' = [results EXCEPT ![m.id] =
                 IF m.kind = "error"
                   THEN [status |-> "error", content |-> Failure(m.error)]
                   ELSE [status |-> "ok", content |-> m.content]]
  /\ UNCHANGED <<smp, toHost>>

DriverReceive ==
  /\ toDriver # <<>>
  /\ toDriver' = Tail(toDriver)
  /\ LET m == Head(toDriver) IN
       IF m.kind = "sample"
         THEN StartSampling(m) /\ UNCHANGED <<driverPending, results>>
         ELSE DriverResponse(m)
  /\ UNCHANGED <<hostVars, got, registered, pc, steps, driverNextId, wait>>

\* The user answers the confirm of handleServerMessagePrompt.
Confirm(s) ==
  /\ smp[s].pc = "confirm"
  /\ \/ /\ smp' = [smp EXCEPT ![s].pc = "generate"]
        /\ UNCHANGED toHost
     \/ Continue(s, smp[s].idx + 1, smp[s].texts)
  /\ UNCHANGED <<hostVars, got, driverMain, toDriver>>

\* generateText of handleServerMessagePrompt returns a text.
Generate(s) ==
  /\ smp[s].pc = "generate"
  /\ \E text \in GenTexts :
       Continue(s, smp[s].idx + 1, Append(smp[s].texts, text))
  /\ UNCHANGED <<hostVars, got, driverMain, toDriver>>

\* Faulty variant of GenerateFails: the failure is swallowed and no response
\* is ever sent for the request.
GenerateFailsSilently(s) ==
  /\ smp[s].pc = "generate"
  /\ smp' = [smp EXCEPT ![s].pc = "failed"]
  /\ UNCHANGED <<hostVars, got, driverMain, toHost, toDriver>>

\* generateText of handleServerMessagePrompt throws: the handler rejects, and
\* the envelope answers the request with an error.
GenerateFails(s) ==
  /\ smp[s].pc = "generate"
  /\ smp' = [smp EXCEPT ![s].pc = "failed"]
  /\ toHost' = Append(toHost,
        [kind |-> "error", id |-> s, error |-> "GenerationFailed"])
  /\ UNCHANGED <<hostVars, got, driverMain, toDriver>>

(***************************************************************************)
(* Driver: main and the handlers of the menu.                              *)
(***************************************************************************)
\* The tool calls a user or the model can make.
ToolCalls ==
  {[tool |-> "create-user", args |-> a] : a \in CreateArgs}
    \cup {[tool |-> "create-random-user", args |-> <<>>]}

\* The resources a user can read: users://all, and users://{userId}/profile
\* with a value typed for the placeholder.
ReadCalls ==
  {[tool |-> "users", args |-> <<>>]}
    \cup {[tool |-> "user-details", args |-> [userId |-> u]] : u \in UserIds}

\* The driver sends one request of the kind for each of calls, with the ids
\* from driverNextId on, and awaits them; the run issues at most bound requests.
Requests(kind, calls, bound) ==
  LET ids == driverNextId .. (driverNextId + Len(calls) - 1) IN
  /\ driverNextId + Len(calls) - 1 <= bound
  /\ driverNextId' = driverNextId + Len(calls)
  /\ driverPending' = driverPending \cup ids
  /\ wait' = ids
  /\ toHost' = toHost \o
       [i \in 1 .. Len(calls) |->
          [kind |-> kind, id |-> driverNextId + i - 1,
           tool |-> calls[i].tool, args |-> calls[i].args]]

\* mcpClient.callTool for each of calls.
CallTools(calls) == Requests("call", calls, MaxCalls)

Settled == \A c \in wait : results[c].status # "none"
Rejected == \E c \in wait : results[c].status = "error"

\* Faulty variant of Connect: main goes to the session loop with the handler
\* still to be registered.
ConnectThenLoop ==
  /\ pc = "connect"
  /\ pc' = "menu"
  /\ UNCHANGED <<hostVars, got, smp, registered, steps, driverNextId,
                 driverPending, results, wait, toHost, toDriver>>

\* connect and the four list requests.
Connect ==
  /\ pc = "connect"
  /\ pc' = "register"
  /\ UNCHANGED <<hostVars, got, smp, registered, steps, driverNextId,
                 driverPending, results, wait, toHost, toDriver>>

\* setRequestHandler(CreateMessageRequestSchema, ...).
Register ==
  /\ pc = "register"
  /\ registered' = TRUE
  /\ pc' = "menu"
  /\ UNCHANGED <<hostVars, got, smp, steps, driverNextId, driverPending,
                 results, wait, toHost, toDriver>>

\* case "Tools": handleTool up to its callTool.
SelectTools ==
  /\ pc = "menu"
  /\ \E call \in ToolCalls : CallTools(<<call>>)
  /\ pc' = "tool"
  /\ UNCHANGED <<hostVars, got, smp, registered, steps, results, toDriver>>

\* handleTool after callTool settled: it prints the text, or the rejection
\* leaves main.
ToolSettles ==
  /\ pc = "tool"
  /\ Settled
  /\ pc' = IF Rejected THEN "crashed" ELSE "menu"
  /\ wait' = {}
  /\ UNCHANGED <<hostVars, got, smp, registered, steps, driverNextId,
                 driverPending, results, toHost, toDriver>>

\* case "Resources": handleResource up to its readResource.
SelectResources ==
  /\ pc = "menu"
  /\ \E read \in ReadCalls : Requests("read", <<read>>, MaxCalls)
  /\ pc' = "resource"
  /\ UNCHANGED <<hostVars, got, smp, registered, steps, results, toDriver>>

\* handleResource after readResource settled: it parses and prints the text,
\* or the rejection leaves main.
ResourceSettles ==
  /\ pc = "resource"
  /\ Settled
  /\ pc' = IF Rejected THEN "crashed" ELSE "menu"
  /\ wait' = {}
  /\ UNCHANGED <<hostVars, got, smp, registered, steps, driverNextId,
                 driverPending, results, toHost, toDriver>>

\* case "Prompts": handlePrompt up to its getPrompt.
SelectPrompts ==
  /\ pc = "menu"
  /\ Requests("prompt", <<[tool |-> "generate-fake-user", args |-> [name |-> "Ada"]]>>,
              MaxCalls)
  /\ pc' = "prompt"
  /\ UNCHANGED <<hostVars, got, smp, registered, steps, results, toDriver>>

\* handlePrompt after getPrompt settled: it goes to the confirm of the first
\* text message, or the rejection leaves main.
PromptSettles ==
  /\ pc = "prompt"
  /\ Settled
  /\ pc' = IF Rejected THEN "crashed"
           ELSE IF NextPrompt(PromptMessages, 1) > Len(PromptMessages) THEN "menu"
           ELSE "promptconfirm"
  /\ wait' = {}
  /\ UNCHANGED <<hostVars, got, smp, registered, steps, driverNextId,
                 driverPending, results, toHost, toDriver>>

\* handleServerMessagePrompt under handlePrompt: the user declines and
\* undefined is printed, or generateText returns and its text is printed, or
\* generateText throws and the rejection leaves main.
PromptRuns ==
  /\ pc = "promptconfirm"
  /\ pc' \in {"menu", "crashed"}
  /\ UNCHANGED <<hostVars, got, smp, registered, steps, driverNextId,
                 driverPending, results, wait, toHost, toDriver>>

\* generateText of handleQuery or of handleAutonomousTask throws: the
\* rejection leaves main.
GenerationThrows ==
  /\ pc \in {"menu", "auto"}
  /\ pc' = "crashed"
  /\ UNCHANGED <<hostVars, got, smp, registered, steps, driverNextId,
                 driverPending, results, wait, toHost, toDriver>>

\* handleQuery up to the tool calls of its generation step, at most most of
\* them, which run in parallel: generateText is given no maxSteps and stops
\* after that step.
QueryStep(tools, most, bound) ==
  /\ pc = "menu"
  /\ \E n \in 0 .. most : \E calls \in [1 .. n -> tools] :
       /\ Requests("call", calls, bound)
       /\ steps' = IF n = 0 THEN 0 ELSE 1
  /\ pc' = "query"
  /\ UNCHANGED <<hostVars, got, smp, registered, results, toDriver>>

\* case "Query".
SelectQuery == QueryStep(ToolCalls, 2, MaxCalls)

\* handleQuery after its tool calls settled: it prints, and main falls through
\* to case "Autonomous Task"; a rejected call leaves main.
QuerySettles ==
  /\ pc = "query"
  /\ Settled
  /\ pc' = IF Rejected THEN "crashed" ELSE "auto"
  /\ steps' = 0
  /\ wait' = {}
  /\ UNCHANGED <<hostVars, got, smp, registered, driverNextId, driverPending,
                 results, toHost, toDriver>>

\* Faulty variant of TaskStep: generateText is given no maxSteps that stops it.
TaskStepUncapped(tools, bound) ==
  /\ pc = "auto"
  /\ \E call \in tools : Requests("call", <<call>>, bound)
  /\ steps' = steps + 1
  /\ pc' = "autowait"
  /\ UNCHANGED <<hostVars, got, smp, registered, results, toDriver>>

\* handleAutonomousTask: one more generation step that calls a tool, while
\* fewer than maxSteps steps were made.
TaskStep(tools, bound) ==
  /\ pc = "auto"
  /\ steps < MaxSteps
  /\ \E call \in tools : Requests("call", <<call>>, bound)
  /\ steps' = steps + 1
  /\ pc' = "autowait"
  /\ UNCHANGED <<hostVars, got, smp, registered, results, toDriver>>

AutoStep == TaskStep(ToolCalls, MaxCalls)

AutoSettles ==
  /\ pc = "autowait"
  /\ Settled
  /\ pc' = IF Rejected THEN "crashed" ELSE "auto"
  /\ wait' = {}
  /\ UNCHANGED <<hostVars, got, smp, registered, steps, driverNextId,
                 driverPending, results, toHost, toDriver>>

\* handleAutonomousTask ends: the generation gave text, or the steps are used up.
AutoEnds ==
  /\ pc = "auto"
  /\ pc' = "menu"
  /\ steps' = 0
  /\ UNCHANGED <<hostVars, got, smp, registered, driverNextId, driverPending,
                 results, wait, toHost, toDriver>>

Next ==
  \/ HostReceive
  \/ \E c \in Calls : HostImport(c)
  \/ \E c \in Calls : HostWrite(c)
  \/ \E c \in Calls : HostLoad(c)
  \/ \E s \in Calls : HostTimeout(s)
  \/ DriverReceive
  \/ \E s \in Calls : Confirm(s)
  \/ \E s \in Calls : Generate(s)
  \/ \E s \in Calls : GenerateFails(s)
  \/ Connect
  \/ Register
  \/ SelectTools
  \/ ToolSettles
  \/ SelectResources
  \/ ResourceSettles
  \/ SelectPrompts
  \/ PromptSettles
  \/ PromptRuns
  \/ GenerationThrows
  \/ SelectQuery
  \/ QuerySettles
  \/ AutoStep
  \/ AutoSettles
  \/ AutoEnds

Spec == Init /\ [][Next]_vars

(***************************************************************************)
(* The runs of the sampling handler on one request of any shape: up to     *)
(* MaxMessages message entries, each a text or an image.                   *)
(***************************************************************************)
MessageEntries == {[role |-> "user", type |-> "text"], [role |-> "user", type |-> "image"]}

SamplingRequests == UNION {[1 .. n -> MessageEntries] : n \in 0 .. MaxMessages}

SamplingInit ==
  /\ users = InitUsers
  /\ file = InitUsers
  /\ inv = [c \in Calls |-> IdleInv]
  /\ hostNextId = 1
  /\ hostPending = {}
  /\ got = [c \in Calls |-> NoMessage]
  /\ smp = [s \in Calls |-> IdleSmp]
  /\ registered = TRUE
  /\ pc = "menu"
  /\ steps = 0
  /\ driverNextId = 1
  /\ driverPending = {}
  /\ results = [c \in Calls |-> [status |-> "none", content |-> Failure("none")]]
  /\ wait = {}
  /\ toHost = <<>>
  /\ \E messages \in SamplingRequests :
       toDriver = <<[kind |-> "sample", id |-> 1, messages |-> messages]>>

SamplingNext ==
  \/ DriverReceive
  \/ \E s \in Calls : Confirm(s)
  \/ \E s \in Calls : Generate(s)
  \/ \E s \in Calls : GenerateFails(s)

SamplingSpec == SamplingInit /\ [][SamplingNext]_vars

(***************************************************************************)
(* The runs of one agent loop after another: the user selects Query every  *)
(* time and the model calls create-user only, one call in a step, so that  *)
(* a run is long enough to take handleAutonomousTask to its cap.           *)
(***************************************************************************)
AgentCalls == 1 .. MaxAgentCalls

AgentToolCalls == {[tool |-> "create-user", args |-> a] : a \in CreateArgs}

AgentInit ==
  /\ users = InitUsers
  /\ file = InitUsers
  /\ inv = [c \in AgentCalls |-> IdleInv]
  /\ hostNextId = 1
  /\ hostPending = {}
  /\ got = [c \in AgentCalls |-> NoMessage]
  /\ smp = [s \in AgentCalls |-> IdleSmp]
  /\ registered = FALSE
  /\ pc = "connect"
  /\ steps = 0
  /\ driverNextId = 1
  /\ driverPending = {}
  /\ results = [c \in AgentCalls |-> [status |-> "none", content |-> Failure("none")]]
  /\ wait = {}
  /\ toHost = <<>>
  /\ toDriver = <<>>

AgentQuery == QueryStep(AgentToolCalls, 1, MaxAgentCalls)

AgentStep == TaskStep(AgentToolCalls, MaxAgentCalls)

AgentNext ==
  \/ HostReceive
  \/ \E c \in AgentCalls : HostImport(c)
  \/ \E c \in AgentCalls : HostWrite(c)
  \/ DriverReceive
  \/ Connect
  \/ Register
  \/ AgentQuery
  \/ QuerySettles
  \/ AgentStep
  \/ AutoSettles
  \/ AutoEnds

AgentSpec == AgentInit /\ [][AgentNext]_vars

\* The host and the two event loops take what is there for them, and every
\* generation of the backend returns.
AgentFairSpec ==
  /\ AgentSpec
  /\ WF_vars(HostReceive)
  /\ \A c \in AgentCalls : WF_vars(HostImport(c)) /\ WF_vars(HostWrite(c))
  /\ WF_vars(DriverReceive)
  /\ WF_vars(QuerySettles)
  /\ WF_vars(AutoSettles)
  /\ WF_vars(AutoEnds)

\* The host's event loop takes what the transport delivers, and a timer that
\* was set fires.  The user may never answer a confirm and the generation
\* backend may never return: no fairness there.
FairSpec ==
  /\ Spec
  /\ WF_vars(HostReceive)
  /\ \A s \in Calls : WF_vars(HostTimeout(s))

(***************************************************************************)
(* Properties.                                                             *)
(***************************************************************************)
Random(c) == inv[c].tool = "create-random-user"
Replied(c) == Random(c) /\ got[c].kind = "result"

\* C1: when the generation backend fails while the sampling handler serves a
\* request, the driver sends an error reply for that request, and the host's
\* Pending Call of that id is eventually resolved with a failure.
C1_ErrorReplySent ==
  \A s \in Calls :
    (smp[s].pc = "generate" /\ smp'[s].pc = "failed") =>
      toHost' = Append(toHost, [kind |-> "error", id |-> s, error |-> "GenerationFailed"])

C1_Resolved(s) ==
  /\ s \notin hostPending
  /\ \E c \in Calls : inv[c].sid = s /\ inv[c].pc = "raised"

C1_GenerationFailureResolves ==
  /\ [][C1_ErrorReplySent]_vars
  /\ \A s \in Calls : (smp[s].pc = "failed") ~> C1_Resolved(s)

\* C1 witness: the backend failed, the error reply arrived and the waiting
\* invocation was resolved with that failure.
C1_Witness ==
  \E c \in Calls :
    /\ inv[c].pc = "raised"
    /\ got[c].kind = "error"
    /\ inv[c].out.text = "GenerationFailed"
    /\ smp[inv[c].sid].pc = "failed"

\* C2: a sampling request whose handler never replies is resolved on the host
\* by the bounded wait with a Timeout failure and leaves the pending set; a
\* reply that arrives for an id with no Pending Call is dropped and changes no
\* invocation.
C2_TimedOut(c) == Random(c) /\ inv[c].pc = "raised" /\ got[c].kind = "none"

C2_LateReplyDropped ==
  (/\ toHost # <<>>
   /\ toHost' = Tail(toHost)
   /\ Head(toHost).kind \in {"result", "error"}
   /\ Head(toHost).id \notin hostPending)
    => UNCHANGED <<inv, got, users, file, hostPending, toDriver>>

C2_TimeoutResolves ==
  /\ \A c \in Calls : (inv[c].pc = "sampling") ~> (inv[c].pc # "sampling")
  /\ [](\A c \in Calls :
          C2_TimedOut(c) => inv[c].out.text = "Timeout" /\ inv[c].sid \notin hostPending)
  /\ [][C2_LateReplyDropped]_vars

\* C2 witness: an invocation timed out while the user had not answered, the
\* handler replied afterwards, and the late reply was taken off the transport
\* without reaching any invocation.
C2_Witness ==
  \E c \in Calls :
    /\ C2_TimedOut(c)
    /\ inv[c].out.text = "Timeout"
    /\ smp[inv[c].sid].pc = "done"
    /\ toHost = <<>>

\* C3: every tool invocation ends by returning Content Items; no handler
\* raises, also when its sampling request fails or times out.
C3_NeverRaises ==
  \A c \in Calls :
    inv[c].tool \in {"create-user", "create-random-user"} => inv[c].pc # "raised"

\* The User schema: the fields name, email, address and phone.
MatchesUserSchema(v) ==
  /\ v.kind = "object"
  /\ {"name", "email", "address", "phone"} \subseteq DOMAIN v.props

\* C4: a reply that parses as JSON but is no record of the User schema makes
\* create-random-user abort before createUser appends anything.
C4_MalformedRecordAborts ==
  \A c \in Calls :
    (/\ Replied(c)
     /\ JsonParses(StripFences(got[c].text))
     /\ ~MatchesUserSchema(JsonParse(StripFences(got[c].text))))
      => inv[c].newUserId = 0 /\ inv[c].out.text # "User created successfully"

\* A text with the white space, fence marks and language tag at its two ends
\* taken off.
RECURSIVE Unwrapped(_)
Unwrapped(s) ==
  IF s # <<>> /\ Head(s) \in {"ws", "fence", "json"} THEN Unwrapped(Tail(s))
  ELSE IF s # <<>> /\ s[Len(s)] \in {"ws", "fence", "json"}
    THEN Unwrapped(SubSeq(s, 1, Len(s) - 1))
  ELSE s

\* The text holds no JSON value, fenced or bare.
NotJson(s) == ~(Len(Unwrapped(s)) = 1 /\ Unwrapped(s)[1] \in JsonTokens)

\* C5: a reply whose text is not JSON (the empty text included) makes
\* create-random-user return a failure Content Item, and the invocation
\* appends no User Record.
C5_Receives(c) ==
  /\ inv[c].pc = "sampling"
  /\ got[c].kind = "none"
  /\ got'[c].kind = "result"
  /\ NotJson(got'[c].text)

C5_NonJsonFails ==
  /\ [](\A c \in Calls :
          (Replied(c) /\ NotJson(got[c].text)) =>
            /\ inv[c].pc = "done"
            /\ inv[c].out = Failure("Failed to generate user data")
            /\ inv[c].newUserId = 0)
  /\ [][\A c \in Calls : C5_Receives(c) => users' = users /\ file' = file]_vars

\* C5 witness: the user declined the prompt, the empty text came back and the
\* tool returned the failure.
C5_Witness ==
  \E c \in Calls :
    /\ Replied(c)
    /\ got[c].text = <<>>
    /\ inv[c].out = Failure("Failed to generate user data")

BareUser(s) == Trim(s) = <<"J_user">>

FencedUser(s, open) ==
  LET t == Trim(s) IN
  /\ Len(t) > Len(open) + 1
  /\ SubSeq(t, 1, Len(open)) = open
  /\ t[Len(t)] = "fence"
  /\ Trim(SubSeq(t, Len(open) + 1, Len(t) - 1)) = <<"J_user">>

UserRecord(id) ==
  [id |-> id, name |-> "Ada", email |-> "a@b.com", address |-> "1 Main",
   phone |-> "555"]

\* The text of a valid User record: bare, fenced with the json tag, or (with
\* anyFence) fenced without a tag.
C6_Valid(s, anyFence) ==
  \/ BareUser(s)
  \/ FencedUser(s, <<"fence", "json">>)
  \/ anyFence /\ FencedUser(s, <<"fence">>)

\* What C6 promises of an invocation whose reply text is valid: the
\* parse does not fail; createUser appends exactly the one record with
\* id = count + 1 and the given fields; and, unless the store fails, the
\* success content reports that id.
C6_Appends(anyFence) ==
  \A c \in Calls :
    (Replied(c) /\ C6_Valid(got[c].text, anyFence) /\ inv[c].pc = "import" /\ inv'[c].pc = "write")
      => users' = Append(users, UserRecord(Len(users) + 1))

C6_Outcome(anyFence) ==
  \A c \in Calls :
    (Replied(c) /\ C6_Valid(got[c].text, anyFence)) =>
      /\ inv[c].fault # "parse"
      /\ (inv[c].pc = "done" /\ inv[c].fault = "none") =>
           /\ inv[c].out = Success(inv[c].newUserId)
           /\ inv[c].newUserId = Len(inv[c].snap)
           /\ users[inv[c].newUserId] = UserRecord(inv[c].newUserId)

C7_FailedWriteInvisible ==
  \A c \in Calls :
    inv[c].fault = "write" =>
      SubSeq(users, 1, Len(inv[c].snap)) # inv[c].snap

\* C8: a tool call whose store read or write failed returns a failure Content
\* Item, never the success content; and the success content is returned only
\* in the step in which the write of the new record completes.
C8_SuccessAfterWrite ==
  \A c \in Calls :
    (inv[c].pc # "done" /\ inv'[c].pc = "done"
       /\ inv'[c].out.text = "User created successfully")
      => /\ inv[c].pc = "write"
         /\ file' = inv[c].snap
         /\ inv[c].newUserId \in DOMAIN file'
         /\ inv'[c].out.id = inv[c].newUserId

C8_PersistenceFailureReported ==
  /\ [](\A c \in Calls :
          inv[c].fault \in {"import", "write"} =>
            /\ inv[c].pc = "done"
            /\ inv[c].out = Failure(CatchMessage(inv[c].tool)))
  /\ [][C8_SuccessAfterWrite]_vars

\* C8 witness: one invocation failed on its write and reported the failure,
\* another one wrote and reported success.
C8_Witness ==
  \E c, d \in Calls :
    /\ inv[c].fault = "write"
    /\ inv[c].out.text # "User created successfully"
    /\ inv[d].pc = "done"
    /\ inv[d].out.text = "User created successfully"

\* C9: every User Record of the collection has a positive id that no other
\* record has, namely the record count before its create plus one.
C9_IdsAreCountPlusOne == \A i \in DOMAIN users : users[i].id = i

\* C10: a response resolves only the Pending Call of its own id: the response
\* an invocation's sampling call got carries the id of that call, and each
\* driver request settles with the outcome of the invocation of its own id.
C10_CorrelationIntegrity ==
  /\ \A c \in Calls : got[c].kind # "none" => got[c].id = inv[c].sid
  /\ \A c, d \in Calls :
       (c # d /\ inv[c].sid # 0 /\ inv[d].sid # 0) => inv[c].sid # inv[d].sid
  /\ \A c \in Calls :
       results[c].status # "none" =>
         /\ inv[c].pc \in {"done", "raised"}
         /\ results[c].content = inv[c].out
         /\ (results[c].status = "error") = (inv[c].pc = "raised")

\* C10 witness: two sampling calls were outstanding together and the later
\* one was answered first, with a text of its own.
C10_Witness ==
  \E c, d \in Calls :
    /\ inv[c].pc = "sampling" /\ inv[c].sid \in hostPending
    /\ Replied(d)
    /\ inv[d].sid > inv[c].sid
    /\ got[d].id = inv[d].sid

Reads(c) == inv[c].tool = "user-details"

\* The number the read of c asks for has a record in the collection.
HasRecord(c) ==
  \E i \in DOMAIN users : users[i].id \in ParseInt(inv[c].data.props.userId)

\* The handler of read c returns what the lookup gives: the "User not found"
\* contents when no record has the id, the record when one has.
C11_Lookup(c) ==
  /\ inv'[c].pc = "done"
  /\ \/ /\ ~HasRecord(c)
        /\ inv'[c].out = Contents(JsonStringify([error |-> "User not found"]))
     \/ \E i \in DOMAIN users :
          /\ users[i].id \in ParseInt(inv[c].data.props.userId)
          /\ inv'[c].out = Contents(JsonStringify(users[i]))

C11_Settles(c) == Reads(c) /\ inv[c].pc = "load" /\ inv'[c].pc # "load"

\* C11: a read of users://{userId}/profile whose id has no User Record is
\* answered with contents that say "User not found" and never with an error;
\* a read whose id has a record is answered with that record.
C11_AbsentIsContent ==
  [][\A c \in Calls : C11_Settles(c) => C11_Lookup(c)]_vars

\* What does hold of a read of users://{userId}/profile: it is answered as C11
\* says, or its import rejected and it is answered with an error.
C11_AbsentIsContentOrLoadFails ==
  [][\A c \in Calls :
       C11_Settles(c) =>
         \/ C11_Lookup(c)
         \/ inv'[c].pc = "raised" /\ inv'[c].fault = "load"]_vars

\* C12: one query makes at most one tool-use step in query mode and at most
\* maxSteps = 5 in autonomous mode, a step is only made while fewer than 5 were
\* made, and the loop of a query that was started comes to its end.
C12_StepsCounted ==
  (pc = "auto" /\ pc' = "autowait") => steps < MaxSteps /\ steps' = steps + 1

C12_BoundedToolLoop ==
  /\ [](steps <= MaxSteps)
  /\ [](pc = "query" => steps <= 1)
  /\ [][C12_StepsCounted]_vars
  /\ (pc \in {"query", "auto", "autowait"}) ~> (pc \in {"menu", "crashed"})

\* C12 witness: an autonomous task made its five steps and stands at the cap
\* while the run could still issue a tool call.
C12_Witness ==
  /\ pc = "auto"
  /\ steps = MaxSteps
  /\ driverNextId <= MaxAgentCalls
  /\ \A c \in 1 .. MaxSteps : results[c].status = "ok"

\* C13: main is never left by a failure: whatever fails under a menu action,
\* the driver prints and the session loop goes on.
C13_NeverCrashes == pc # "crashed"

\* The texts with a newline between each two of them, built from the last
\* text backwards.
RECURSIVE NewlineSeparated(_)
NewlineSeparated(texts) ==
  IF texts = <<>> THEN <<>>
  ELSE IF Len(texts) = 1 THEN texts[1]
  ELSE NewlineSeparated(SubSeq(texts, 1, Len(texts) - 1)) \o <<"ws">> \o texts[Len(texts)]

\* The entries of a request from i to j - 1 are no text messages.
NoTextBetween(messages, i, j) ==
  \A k \in i .. (j - 1) : k \in DOMAIN messages => messages[k].type # "text"

\* Where the handler stands: on a text message that no earlier entry is still
\* at work on, or past the last entry.
C14_OneAtATime ==
  \A s \in Calls :
    /\ smp[s].pc \in {"confirm", "generate", "failed"} =>
         /\ smp[s].idx \in DOMAIN smp[s].messages
         /\ smp[s].messages[smp[s].idx].type = "text"
         /\ Len(smp[s].texts) < smp[s].idx
    /\ smp[s].pc = "done" =>
         /\ smp[s].idx = Len(smp[s].messages) + 1
         /\ toHost = <<[kind |-> "result", id |-> s, type |-> "text",
                        text |-> NewlineSeparated(smp[s].texts)]>>

\* What one step of the handler does to the texts: the first step starts from
\* none and goes to the first text message; a generation adds its text after
\* the texts of the earlier messages; a declined message adds nothing; and from
\* one message the handler goes to the next text message of the request.
C14_InOrder ==
  \A s \in Calls :
    /\ (smp[s].pc = "none" /\ smp'[s].pc # "none") =>
         /\ smp'[s].texts = <<>>
         /\ NoTextBetween(smp'[s].messages, 1, smp'[s].idx)
    /\ (smp[s].pc = "confirm" /\ smp'[s].pc = "generate") =>
         smp'[s].texts = smp[s].texts /\ smp'[s].idx = smp[s].idx
    /\ (smp[s].pc = "confirm" /\ smp'[s] # smp[s] /\ smp'[s].pc # "generate") =>
         /\ smp'[s].texts = smp[s].texts
         /\ smp'[s].idx > smp[s].idx
         /\ NoTextBetween(smp[s].messages, smp[s].idx + 1, smp'[s].idx)
    /\ (smp[s].pc = "generate" /\ smp'[s].pc \in {"confirm", "done"}) =>
         /\ \E text \in GenTexts : smp'[s].texts = Append(smp[s].texts, text)
         /\ smp'[s].idx > smp[s].idx
         /\ NoTextBetween(smp[s].messages, smp[s].idx + 1, smp'[s].idx)

C15_SendsWhenRegistered == driverNextId' # driverNextId => registered

C16_QueryReturnsToMenu ==
  (pc = "query" /\ pc' # "query") => pc' \in {"menu", "crashed"}

C16_OneHandlerPerSelection ==
  /\ [][C16_QueryReturnsToMenu]_vars
  /\ [](pc \notin {"auto", "autowait"})

\* The create invocation c returned the success content.
Created(c) ==
  /\ inv[c].tool \in {"create-user", "create-random-user"}
  /\ inv[c].pc = "done"
  /\ inv[c].out.text = "User created successfully"

\* The record createUser pushed for c: the last one of what it then wrote.
Pushed(c) == inv[c].snap[Len(inv[c].snap)]

\* C17: of two create invocations that both returned success, the records
\* have different ids and the document on disk holds both of them, however
\* the steps of the two were interleaved.
C17_NoLostAppend ==
  \A c, d \in Calls :
    (c # d /\ Created(c) /\ Created(d)) =>
      /\ Pushed(c).id # Pushed(d).id
      /\ \E i \in DOMAIN file : file[i] = Pushed(c)
      /\ \E i \in DOMAIN file : file[i] = Pushed(d)

====
